---------------------------- MODULE Spec2Model ----------------------------
(***************************************************************************)
(* A model of the analytics core of WEBSITE/analytics/batch_analytics.py.  *)
(*                                                                         *)
(* Every function of the core is a synchronous transform: it is called     *)
(* with arguments and returns a dict (or raises).  The state is the call   *)
(* under way: fn names the function, args holds its arguments, ret the     *)
(* value it returned (or that it has not returned yet), hist the earlier   *)
(* completed calls kept for comparison.                                    *)
(*                                                                         *)
(* Numbers.  Python floats are modelled by exact rationals:                *)
(*   - a value the code rounds with round(x, 1) is held in tenths (an      *)
(*     integer); where x lies exactly half way between two tenths the      *)
(*     double that the code rounds may lie on either side, so both tenths  *)
(*     are possible results;                                               *)
(*   - a correlation coefficient cov / sqrt(var1 * var2) is held as the    *)
(*     pair num, den2 with r = num / sqrt(den2);                           *)
(*   - other reals are reduced fractions <<numerator, denominator>>.       *)
(* Comparisons with thresholds are made on the exact value, which is what  *)
(* the float comparison yields for the magnitudes used here.               *)
(***************************************************************************)
EXTENDS Integers, Sequences, FiniteSets, TLC

VARIABLES fn, args, ret, hist

vars == <<fn, args, ret, hist>>

(***************************************************************************)
(* Bounds of the model.                                                    *)
(***************************************************************************)
\* saturation: totals lie on a grid of 1/Grain of a tenth of a percent of
\* the population, within MaxDelta grid steps of a threshold.
Grain == 4
MaxDelta == 3
\* volatility: daily series of at most MaxLen values in -MaxVal..MaxVal.
MaxLen == 3
MaxVal == 3
\* tables: at most MaxRows rows, numeric cells of magnitude CellUnit.
MaxRows == 2
CellUnit == 20000
\* forecasts: series of up to MinObservations + ExtraObs daily totals
\* a * i + b (+ 1 at one position), |a| <= MaxSlope, 0 <= b <= MaxIntercept,
\* in a table with up to MaxBad rows whose date does not parse.
ExtraObs == 1
MaxSlope == 2
MaxIntercept == 1
MaxBad == 1
\* correlations: tables of at most MaxCorrRows rows, numeric cells 0..MaxCell.
MaxCorrRows == 3
MaxCell == 1
MaxCols == 3
MaxTop == 4
MaxTriRows == 2
MaxReportRows == 2

(***************************************************************************)
(* Arithmetic helpers.                                                     *)
(***************************************************************************)
Abs(x) == IF x < 0 THEN -x ELSE x

Min(a, b) == IF a < b THEN a ELSE b

RECURSIVE GCD(_, _)
GCD(a, b) == IF b = 0 THEN Abs(a) ELSE GCD(b, a % Abs(b))

RECURSIVE SumSeq(_)
SumSeq(s) == IF s = <<>> THEN 0 ELSE Head(s) + SumSeq(Tail(s))

\* floor(sqrt(n)) for n >= 0, by bisection on lo..hi
RECURSIVE ISqrtIn(_, _, _)
ISqrtIn(n, lo, hi) ==
    IF lo >= hi THEN lo
    ELSE LET mid == (lo + hi + 1) \div 2
         IN  IF mid <= n \div mid THEN ISqrtIn(n, mid, hi)
                                  ELSE ISqrtIn(n, lo, mid - 1)

ISqrt(n) == IF n <= 0 THEN 0 ELSE ISqrtIn(n, 1, Min(n, 46340))

\* round(num / den) to an integer, den > 0: the nearest integer, and both
\* neighbours at an exact tie.
RoundSet(num, den) ==
    LET q == num \div den
        r == num - q * den
    IN  IF 2 * r < den THEN {q}
        ELSE IF 2 * r > den THEN {q + 1}
        ELSE {q, q + 1}

(***************************************************************************)
(* Exact fractions <<numerator, denominator>>, denominator > 0, reduced.   *)
(***************************************************************************)
Frac(n, d) ==
    LET g == GCD(n, d)
    IN  IF d < 0 THEN <<(-n) \div g, (-d) \div g>> ELSE <<n \div g, d \div g>>

RInt(k) == <<k, 1>>

RAdd(p, q) ==
    LET g == GCD(p[2], q[2])
    IN  Frac(p[1] * (q[2] \div g) + q[1] * (p[2] \div g), (p[2] \div g) * q[2])

RNeg(p) == <<-p[1], p[2]>>

RSub(p, q) == RAdd(p, RNeg(q))

RMul(p, q) ==
    LET g1 == GCD(p[1], q[2])
        g2 == GCD(q[1], p[2])
    IN  <<(p[1] \div g1) * (q[1] \div g2), (p[2] \div g2) * (q[2] \div g1)>>

\* p / q, q # 0
RDiv(p, q) ==
    IF q[1] < 0 THEN RMul(p, <<-q[2], -q[1]>>) ELSE RMul(p, <<q[2], q[1]>>)

RECURSIVE RSum(_)
RSum(s) == IF s = <<>> THEN RInt(0) ELSE RAdd(Head(s), RSum(Tail(s)))

(***************************************************************************)
(* CONFIG                                                                  *)
(***************************************************************************)
saturation_critical == 40
saturation_warning == 60
volatility_high == 150

CONFIG_population ==
    "Uttar Pradesh" :> 240 @@ "Maharashtra" :> 130 @@ "Bihar" :> 128 @@
    "West Bengal" :> 100 @@ "Madhya Pradesh" :> 87 @@ "Tamil Nadu" :> 80 @@
    "Rajasthan" :> 82 @@ "Karnataka" :> 70 @@ "Gujarat" :> 72 @@
    "Andhra Pradesh" :> 53 @@ "Telangana" :> 40 @@ "Kerala" :> 36 @@
    "Jharkhand" :> 40 @@ "Odisha" :> 47 @@ "Punjab" :> 31

DefaultPopulation == 50
PersonsPerMillion == 1000000
SaturationCap == 120

\* CONFIG['population'].get(state, 50)
PopulationMillions(state) ==
    IF state \in DOMAIN CONFIG_population THEN CONFIG_population[state]
                                          ELSE DefaultPopulation

\* a call that has not returned
Pending == [done |-> FALSE]

(***************************************************************************)
(* calculate_saturation_index(total_enrollments, state)                    *)
(*                                                                         *)
(* index = min(total / population * 100, 120), population a multiple of    *)
(* 1,000,000.  index < t is total * 100 < t * population, written with     *)
(* both sides divided by 100.  The returned value round(index, 1) is held  *)
(* in tenths: index * 10 = total / (population / 1000).                    *)
(***************************************************************************)
IndexBelow(total_enrollments, population, t) ==
    total_enrollments < t * (population \div 100)

\* a variant with the critical band closed above (index <= 40)
SaturationStatus_ClosedBand(total_enrollments, population) ==
    IF total_enrollments <= saturation_critical * (population \div 100)
        THEN "critical"
    ELSE IF IndexBelow(total_enrollments, population, saturation_warning)
        THEN "warning"
    ELSE "healthy"

SaturationStatus(total_enrollments, population) ==
    IF IndexBelow(total_enrollments, population, saturation_critical)
        THEN "critical"
    ELSE IF IndexBelow(total_enrollments, population, saturation_warning)
        THEN "warning"
    ELSE "healthy"

\* round(index, 1) in tenths: the possible results
SaturationValue(total_enrollments, population) ==
    IF IndexBelow(total_enrollments, population, SaturationCap)
        THEN RoundSet(total_enrollments, population \div 1000)
        ELSE {SaturationCap * 10}

\* the dicts the call can return
calculate_saturation_index(total_enrollments, state) ==
    LET population == PopulationMillions(state) * PersonsPerMillion
    IN  { [done |-> TRUE,
           value |-> v,
           status |-> SaturationStatus(total_enrollments, population),
           population_millions |-> PopulationMillions(state)] :
          v \in SaturationValue(total_enrollments, population) }

(***************************************************************************)
(* calculate_volatility_index(daily_values)                                *)
(*                                                                         *)
(* With n values, S their sum and Q the sum of their squares:              *)
(*   mean = S / n,  std = sqrt(n*Q - S*S) / n  (np.std, ddof = 0),         *)
(*   cv = std / mean * 100 = 100 * sqrt(D) / S  with D = n*Q - S*S.        *)
(* cv does not change when every value is divided by the same positive    *)
(* number, so D and S are computed on the values divided by their         *)
(* greatest common divisor, which keeps the products within range.        *)
(***************************************************************************)
RECURSIVE GCDSeq(_)
GCDSeq(s) == IF s = <<>> THEN 0 ELSE GCD(Head(s), GCDSeq(Tail(s)))

Reduced(s) ==
    IF GCDSeq(s) = 0 THEN s ELSE [i \in 1..Len(s) |-> s[i] \div GCDSeq(s)]

SumSquares(s) == SumSeq([i \in 1..Len(s) |-> s[i] * s[i]])

\* n*Q - S*S = n * n * variance
Dispersion(s) == Len(s) * SumSquares(s) - SumSeq(s) * SumSeq(s)

\* cv < t for a threshold t > 0 and a mean other than 0: a negative mean
\* makes cv <= 0; otherwise 100 * sqrt(D) < t * S, squared.
CvBelow(daily_values, t) ==
    LET s == Reduced(daily_values)
    IN  \/ SumSeq(s) < 0
        \/ 10000 * Dispersion(s) < t * t * SumSeq(s) * SumSeq(s)

\* a variant without the band between 100 and volatility_high
VolatilityStatus_NoHighBand(daily_values) ==
    IF CvBelow(daily_values, 50) THEN "stable"
    ELSE IF CvBelow(daily_values, 100) THEN "moderate"
    ELSE "critical"

VolatilityStatus(daily_values) ==
    IF CvBelow(daily_values, 50) THEN "stable"
    ELSE IF CvBelow(daily_values, 100) THEN "moderate"
    ELSE IF CvBelow(daily_values, volatility_high) THEN "high"
    ELSE "critical"

\* |cv| * 10 = 1000 * sqrt(D) / |S|, rounded: with w = floor(2000*sqrt(D)/|S|)
\* the nearest integer is (w + 1) \div 2 unless 2000*sqrt(D)/|S| is an odd
\* integer (a tie).
CvTenthsAbs(daily_values) ==
    LET s == Reduced(daily_values)
        S == Abs(SumSeq(s))
        D == Dispersion(s)
        y == (4000000 * D) \div (S * S)
        w == ISqrt(y)
        tie == /\ w % 2 = 1
               /\ w * w * S * S = 4000000 * D
    IN  IF tie THEN {(w - 1) \div 2, (w + 1) \div 2} ELSE {(w + 1) \div 2}

\* round(cv, 1) in tenths, with the sign of the mean
VolatilityValue(daily_values) ==
    { (IF SumSeq(daily_values) < 0 THEN -v ELSE v) : v \in CvTenthsAbs(daily_values) }

calculate_volatility_index(daily_values) ==
    IF Len(daily_values) < 2
        THEN {[done |-> TRUE, value |-> 0, status |-> "insufficient_data"]}
    ELSE IF SumSeq(daily_values) = 0
        THEN {[done |-> TRUE, value |-> 0, status |-> "no_activity"]}
    ELSE { [done |-> TRUE, value |-> v, status |-> VolatilityStatus(daily_values)] :
           v \in VolatilityValue(daily_values) }

(***************************************************************************)
(* Tables (pandas DataFrames).                                             *)
(*                                                                         *)
(* A table has an optional state column, an optional date column and       *)
(* ncols numeric columns (integer counts), in that column order.  A row    *)
(* is [state, date, vals]: vals is the tuple of its numeric cells.  A date *)
(* cell is a string ("str") or a parsed timestamp ("ts"); month = 0 is a   *)
(* string that does not parse, or NaT.  A column the table lacks holds a   *)
(* placeholder in every row.                                               *)
(***************************************************************************)
NoState == ""
NoDate == [kind |-> "absent", month |-> 0, day |-> 0]
NaT == [kind |-> "ts", month |-> 0, day |-> 0]

DateString(month, day) == [kind |-> "str", month |-> month, day |-> day]

\* pd.to_datetime(cell, errors='coerce', dayfirst=True)
to_datetime(cell) == [cell EXCEPT !.kind = "ts"]

\* Series.notna() of a (parsed) date cell
DateNotNa(cell) == cell.month # 0

\* the order of timestamps
DateKey(cell) == cell.month * 100 + cell.day

\* DataFrame.empty: no rows or no columns
IsEmptyTable(df) ==
    \/ df.rows = <<>>
    \/ (~df.has_state /\ ~df.has_date /\ df.ncols = 0)

RECURSIVE SelectRows(_, _)
SelectRows(rows, state) ==
    IF rows = <<>> THEN <<>>
    ELSE IF Head(rows).state = state
        THEN <<Head(rows)>> \o SelectRows(Tail(rows), state)
        ELSE SelectRows(Tail(rows), state)

\* a set of integers as an ascending sequence
RECURSIVE SortedSeq(_)
SortedSeq(S) ==
    IF S = {} THEN <<>>
    ELSE LET m == CHOOSE x \in S : \A y \in S : x <= y
         IN  <<m>> \o SortedSeq(S \ {m})

\* state_df[numeric_cols].sum().sum()
NumericTotal(rows) ==
    SumSeq([i \in 1..Len(rows) |-> SumSeq(rows[i].vals)])

\* sum of column col over the rows whose date has the key k
SumWhereDate(rows, col, k) ==
    SumSeq([i \in 1..Len(rows) |->
              IF DateKey(rows[i].date) = k THEN rows[i].vals[col] ELSE 0])

\* rows.groupby('date')[col].sum(): one total per date, in date order;
\* the rows without a date (NaT) belong to no group.  The dates are parsed.
GroupByDateSum(rows, col) ==
    LET keys == SortedSeq({ DateKey(rows[i].date) :
                            i \in {j \in 1..Len(rows) : DateNotNa(rows[j].date)} })
    IN  [g \in 1..Len(keys) |-> SumWhereDate(rows, col, keys[g])]

\* the rows with their date column parsed
ParseDates(rows) ==
    [i \in 1..Len(rows) |-> [rows[i] EXCEPT !.date = to_datetime(rows[i].date)]]

(***************************************************************************)
(* calculate_state_indicators(df, state)                                   *)
(***************************************************************************)
\* df[df['state'] == state].copy() if 'state' in df.columns else df
StateFrame(df, state) ==
    IF df.has_state THEN [df EXCEPT !.rows = SelectRows(df.rows, state)]
                    ELSE df

\* the dicts the call can return
calculate_state_indicators(df, state) ==
    LET state_df == StateFrame(df, state)
        total == IF state_df.ncols > 0
                    THEN NumericTotal(state_df.rows) ELSE 0
        daily_totals == IF state_df.ncols > 0
                           THEN GroupByDateSum(ParseDates(state_df.rows), 1)
                           ELSE <<>>
        volatilities == IF state_df.has_date
                           THEN calculate_volatility_index(daily_totals)
                           ELSE {[done |-> TRUE, value |-> 0, status |-> "no_date_data"]}
    IN  IF IsEmptyTable(state_df)
            THEN {[done |-> TRUE, error |-> "No data for state"]}
            ELSE { [done |-> TRUE,
                    state |-> state,
                    total_enrollments |-> total,
                    saturation_index |-> s,
                    volatility_index |-> v] :
                   s \in calculate_saturation_index(total, state),
                   v \in volatilities }

\* the caller's table after the call: without a state column state_df is
\* the caller's table itself, and state_df['date'] = pd.to_datetime(...)
\* assigns into it.
TableAfterStateIndicators(df, state) ==
    IF ~df.has_state /\ ~IsEmptyTable(df) /\ df.has_date
        THEN [df EXCEPT !.rows = ParseDates(df.rows)]
        ELSE df

(***************************************************************************)
(* simple_linear_forecast(time_series, periods)                            *)
(*                                                                         *)
(* time_series is a sequence of [date, value], one per day, in date order. *)
(* X is 0 .. n-1, so X[i] = i - 1 for the i-th value.                      *)
(***************************************************************************)
MinObservations == 10
ForecastPeriods == 30

Values(time_series) == [i \in 1..Len(time_series) |-> time_series[i].value]

\* the mean of a sequence of integers
Mean(s) == Frac(SumSeq(s), Len(s))

\* X - X_mean and y - y_mean, element-wise
Deviations(s) == [i \in 1..Len(s) |-> RSub(RInt(s[i]), Mean(s))]

Square(p) == RMul(p, p)

\* a variant that tests slope >= 0 first
TrendLabel_NonStrict(slope) ==
    IF slope[1] >= 0 THEN "increasing"
    ELSE IF slope[1] < 0 THEN "decreasing"
    ELSE "flat"

\* 'increasing' if slope > 0 else 'decreasing' if slope < 0 else 'flat'
TrendLabel(slope) ==
    IF slope[1] > 0 THEN "increasing"
    ELSE IF slope[1] < 0 THEN "decreasing"
    ELSE "flat"

\* y_mean - slope * X_mean
Intercept(slope, X_mean, y_mean) == RSub(y_mean, RMul(slope, X_mean))

\* a variant that also refuses exactly MinObservations values
TooFewObservations_Inclusive(n) == n <= MinObservations

\* len(time_series) < 10
TooFewObservations(n) == n < MinObservations

simple_linear_forecast(time_series, periods) ==
    LET n == Len(time_series)
        X == [i \in 1..n |-> i - 1]
        y == Values(time_series)
        dX == Deviations(X)
        dy == Deviations(y)
        numerator == RSum([i \in 1..n |-> RMul(dX[i], dy[i])])
        denominator == RSum([i \in 1..n |-> Square(dX[i])])
        slope == RDiv(numerator, denominator)
        intercept == Intercept(slope, Mean(X), Mean(y))
        forecast == [k \in 1..periods |->
                        RAdd(RMul(slope, RInt(n + k - 1)), intercept)]
        y_pred == [i \in 1..n |-> RAdd(RMul(slope, RInt(X[i])), intercept)]
        ss_res == RSum([i \in 1..n |-> Square(RSub(RInt(y[i]), y_pred[i]))])
        ss_tot == RSum([i \in 1..n |-> Square(dy[i])])
        r_squared == IF ss_tot[1] > 0 THEN RSub(RInt(1), RDiv(ss_res, ss_tot))
                                      ELSE RInt(0)
    IN  IF TooFewObservations(n)
            THEN [done |-> TRUE, error |-> "Insufficient data for forecasting"]
        ELSE IF denominator[1] = 0
            THEN [done |-> TRUE, error |-> "Cannot calculate slope"]
        ELSE [done |-> TRUE,
              slope |-> slope,
              intercept |-> intercept,
              r_squared |-> r_squared,
              forecast |-> forecast,
              trend |-> TrendLabel(slope)]

(***************************************************************************)
(* forecast_enrollment_trend(df)                                           *)
(***************************************************************************)
\* df.dropna(subset=['date']) of rows with parsed dates
RECURSIVE DropNaDates(_)
DropNaDates(rows) ==
    IF rows = <<>> THEN <<>>
    ELSE IF DateNotNa(Head(rows).date)
        THEN <<Head(rows)>> \o DropNaDates(Tail(rows))
        ELSE DropNaDates(Tail(rows))

\* the dates of the rows, parsed, ascending and without NaT
DateKeys(rows) ==
    SortedSeq({ DateKey(rows[i].date) :
                i \in {j \in 1..Len(rows) : DateNotNa(rows[j].date)} })

\* df.groupby('date')[col].sum().sort_index(): a series indexed by date
DailyTotals(rows, col) ==
    [g \in 1..Len(DateKeys(rows)) |->
        [date |-> DateKeys(rows)[g],
         value |-> SumWhereDate(rows, col, DateKeys(rows)[g])]]

\* str(daily_totals.index[-1].date()) if len(daily_totals) > 0 else None;
\* None is <<>>
LastDate(daily_totals) ==
    IF Len(daily_totals) > 0
        THEN <<daily_totals[Len(daily_totals)].date \div 100,
               daily_totals[Len(daily_totals)].date % 100>>
        ELSE <<>>

forecast_enrollment_trend(df) ==
    LET rows == DropNaDates(ParseDates(df.rows))
        daily_totals == DailyTotals(rows, 1)
        forecast == simple_linear_forecast(daily_totals, ForecastPeriods)
    IN  IF IsEmptyTable(df) \/ ~df.has_date
            THEN [done |-> TRUE, error |-> "Cannot forecast without date column"]
        ELSE IF df.ncols = 0
            THEN [done |-> TRUE, error |-> "No numeric columns found"]
        ELSE [k \in DOMAIN forecast \cup {"historical_days", "last_date"} |->
                IF k = "historical_days" THEN Len(daily_totals)
                ELSE IF k = "last_date" THEN LastDate(daily_totals)
                ELSE forecast[k]]

(***************************************************************************)
(* bivariate_correlation(df, col1, col2) and interpret_correlation(r)      *)
(*                                                                         *)
(* Here a table is [columns, rows]: columns is the set of its column       *)
(* names and a row maps each name to a cell [numeric, v]: numeric is FALSE *)
(* for a cell that is missing or is text pd.to_numeric cannot convert.     *)
(* A coefficient is [nan, num, den2]: r = num / sqrt(den2), or NaN.        *)
(***************************************************************************)
NaNCell == [numeric |-> FALSE, v |-> 0]

NumCell(v) == [numeric |-> TRUE, v |-> v]

\* pd.to_numeric(df[col], errors='coerce'): the cells it leaves numeric
to_numeric(rows, col) == [i \in 1..Len(rows) |-> rows[i][col]]

\* a variant of the mask that looks at the first series only
ValidMask_FirstOnly(s1, s2) == [i \in 1..Len(s1) |-> s1[i].numeric]

\* s1.notna() & s2.notna()
ValidMask(s1, s2) == [i \in 1..Len(s1) |-> s1[i].numeric /\ s2[i].numeric]

\* s[valid_mask], as the sequence of the values kept
RECURSIVE Masked(_, _)
Masked(s, mask) ==
    IF s = <<>> THEN <<>>
    ELSE IF Head(mask) THEN <<Head(s).v>> \o Masked(Tail(s), Tail(mask))
    ELSE Masked(Tail(s), Tail(mask))

SumProducts(x, y) == SumSeq([i \in 1..Len(x) |-> x[i] * y[i]])

CorrNaN == [nan |-> TRUE, num |-> 0, den2 |-> 1]

\* Series.corr (Pearson) of two series of equal length n >= 2:
\* r = (n*Sxy - Sx*Sy) / sqrt((n*Sxx - Sx*Sx) * (n*Syy - Sy*Sy)),
\* NaN when a variance is 0
Pearson(x, y) ==
    LET n == Len(x)
        cov == n * SumProducts(x, y) - SumSeq(x) * SumSeq(y)
        vx == n * SumProducts(x, x) - SumSeq(x) * SumSeq(x)
        vy == n * SumProducts(y, y) - SumSeq(y) * SumSeq(y)
    IN  IF vx = 0 \/ vy = 0 THEN CorrNaN
        ELSE [nan |-> FALSE, num |-> cov, den2 |-> vx * vy]

\* abs(r) < p / 100, for 0 < p
AbsBelow(r, p) == 10000 * r.num * r.num < p * p * r.den2

\* str.title() of the strength labels
Title(strength) ==
    CASE strength = "negligible" -> "Negligible"
      [] strength = "weak" -> "Weak"
      [] strength = "moderate" -> "Moderate"
      [] strength = "strong" -> "Strong"
      [] strength = "very strong" -> "Very Strong"

Strength(r) ==
    IF AbsBelow(r, 10) THEN "negligible"
    ELSE IF AbsBelow(r, 30) THEN "weak"
    ELSE IF AbsBelow(r, 50) THEN "moderate"
    ELSE IF AbsBelow(r, 70) THEN "strong"
    ELSE "very strong"

\* "positive" if r > 0 else "negative"
Direction(r) == IF r.num > 0 THEN "positive" ELSE "negative"

interpret_correlation(r) ==
    IF r.nan THEN "No correlation calculated"
    ELSE Title(Strength(r)) \o " " \o Direction(r) \o " correlation"

bivariate_correlation(df, col1, col2) ==
    LET s1 == to_numeric(df.rows, col1)
        s2 == to_numeric(df.rows, col2)
        valid_mask == ValidMask(s1, s2)
        x == Masked(s1, valid_mask)
        y == Masked(s2, valid_mask)
        correlation == Pearson(x, y)
    IN  IF col1 \notin df.columns \/ col2 \notin df.columns
            THEN [done |-> TRUE, error |-> "Columns not found"]
        ELSE IF Len(x) < 2
            THEN [done |-> TRUE, error |-> "Insufficient data"]
        ELSE [done |-> TRUE,
              column1 |-> col1,
              column2 |-> col2,
              correlation |-> IF correlation.nan
                                 THEN [nan |-> FALSE, num |-> 0, den2 |-> 1]
                                 ELSE correlation,
              sample_size |-> Len(x),
              interpretation |-> interpret_correlation(correlation)]

(***************************************************************************)
(* state_activity_correlation(df) and extract_top_correlations(matrix, n)  *)
(*                                                                         *)
(* A correlation matrix is [cols, r]: cols is the sequence of its column   *)
(* names and r[i][j] the coefficient of the columns i and j.  A table is   *)
(* again [has_state, has_date, ncols, rows]; its numeric columns are named *)
(* by position.                                                            *)
(***************************************************************************)
TopN == 5

\* the names of the numeric columns of a table, in column order
NumericColumnNames ==
    <<"age_0_5", "age_5_17", "age_18_greater", "count_4", "count_5">>

\* the state names in the order groupby sorts them
StateOrder == <<"Bihar", "Goa", "Kerala", "Punjab", "Uttar Pradesh">>

StateRank(state) == CHOOSE i \in 1..Len(StateOrder) : StateOrder[i] = state

\* abs(x) >= abs(y): a variant of the sort order that moves equal keys
AbsGreater_OrEqual(x, y) == x.num * x.num * y.den2 >= y.num * y.num * x.den2

\* abs(x) > abs(y) for two defined coefficients
AbsGreater(x, y) == x.num * x.num * y.den2 > y.num * y.num * x.den2

\* the positions (i, j) of a k x k matrix in the order of the two loops
Positions(k) ==
    [t \in 1..(k * k) |-> <<((t - 1) \div k) + 1, ((t - 1) % k) + 1>>]

\* the pairs appended by the loops: i < j and r defined
UpperPairs(corr_matrix) ==
    LET k == Len(corr_matrix.cols)
        kept == SelectSeq(Positions(k),
                    LAMBDA p : p[1] < p[2] /\ ~corr_matrix.r[p[1]][p[2]].nan)
    IN  [t \in 1..Len(kept) |->
            [pair |-> corr_matrix.cols[kept[t][1]] \o " vs "
                        \o corr_matrix.cols[kept[t][2]],
             correlation |-> corr_matrix.r[kept[t][1]][kept[t][2]]]]

\* p put behind every pair of sorted whose key is not smaller
RECURSIVE InsertByAbs(_, _)
InsertByAbs(sorted, p) ==
    IF sorted = <<>> THEN <<p>>
    ELSE IF AbsGreater(p.correlation, Head(sorted).correlation)
        THEN <<p>> \o sorted
        ELSE <<Head(sorted)>> \o InsertByAbs(Tail(sorted), p)

\* pairs.sort(key=abs(correlation), reverse=True): the sort is stable
RECURSIVE SortByAbs(_)
SortByAbs(pairs) ==
    IF pairs = <<>> THEN <<>>
    ELSE InsertByAbs(SortByAbs(SubSeq(pairs, 1, Len(pairs) - 1)),
                     pairs[Len(pairs)])

\* s[:n] for n >= 0
FirstN(s, n) == SubSeq(s, 1, Min(n, Len(s)))

extract_top_correlations(corr_matrix, n) ==
    FirstN(SortByAbs(UpperPairs(corr_matrix)), n)

\* the keys of df.groupby('state'), ascending, as ranks in StateOrder
GroupStates(rows) ==
    SortedSeq({ StateRank(rows[i].state) : i \in 1..Len(rows) })

\* df.groupby('state')[numeric_cols].sum(): the column c of state_agg
StateAgg(df, c) ==
    LET g == GroupStates(df.rows)
    IN  [t \in 1..Len(g) |->
            SumSeq([i \in 1..Len(df.rows) |->
                      IF StateRank(df.rows[i].state) = g[t]
                          THEN df.rows[i].vals[c] ELSE 0])]

\* state_agg.corr(): the Pearson coefficient of every two columns.  The
\* coefficient of two series is that of the series divided by positive
\* numbers, here the greatest common divisors of their values.
CorrMatrix(df) ==
    [cols |-> SubSeq(NumericColumnNames, 1, df.ncols),
     r |-> [i \in 1..df.ncols |-> [j \in 1..df.ncols |->
               Pearson(Reduced(StateAgg(df, i)), Reduced(StateAgg(df, j)))]]]

state_activity_correlation(df) ==
    IF ~df.has_state THEN [done |-> TRUE, error |-> "No state column found"]
    ELSE [done |-> TRUE,
          states_analyzed |-> Len(GroupStates(df.rows)),
          correlation_matrix |-> CorrMatrix(df),
          top_correlations |-> extract_top_correlations(CorrMatrix(df), TopN)]

(***************************************************************************)
(* trivariate_time_state_volume(enrollment_df, demographic_df,             *)
(*                              biometric_df)                              *)
(*                                                                         *)
(* The result of one table is [empty |-> TRUE] for {} and otherwise holds  *)
(* monthly_state_pattern, peak_month and low_month.                        *)
(***************************************************************************)
PatternLimit == 50

EmptyResult == [empty |-> TRUE]

\* select_dtypes(include=[np.number]).columns after month and day_of_week
\* were added: the table's own numeric columns come first
NumericCols(df) ==
    SubSeq(NumericColumnNames, 1, df.ncols) \o <<"month", "day_of_week">>

\* the value of the column total_col in a row (date parsed)
Measure(row, total_col) ==
    IF total_col = "month" THEN row.date.month ELSE row.vals[1]

\* the key (state, month) of a row as one number, ordered as groupby
\* orders its keys
GroupKey(row) == StateRank(row.state) * 100 + row.date.month

\* df.groupby(['state', 'month'])[total_col].sum()
MonthlyState(rows, total_col) ==
    LET keys == SortedSeq({ GroupKey(rows[i]) : i \in 1..Len(rows) })
    IN  [g \in 1..Len(keys) |->
            [state |-> StateOrder[keys[g] \div 100],
             month |-> keys[g] % 100,
             total |-> SumSeq([i \in 1..Len(rows) |->
                                 IF GroupKey(rows[i]) = keys[g]
                                     THEN Measure(rows[i], total_col) ELSE 0])]]

\* df.groupby('month')[total_col].sum()
MonthTotals(rows, total_col) ==
    LET months == SortedSeq({ rows[i].date.month : i \in 1..Len(rows) })
    IN  [g \in 1..Len(months) |->
            [month |-> months[g],
             total |-> SumSeq([i \in 1..Len(rows) |->
                                 IF rows[i].date.month = months[g]
                                     THEN Measure(rows[i], total_col) ELSE 0])]]

\* Series.idxmax(): the label of the first occurrence of the maximum
idxmax(series) ==
    series[CHOOSE g \in 1..Len(series) :
              /\ \A h \in 1..Len(series) : series[h].total <= series[g].total
              /\ \A h \in 1..(g - 1) : series[h].total < series[g].total].month

\* Series.idxmin(): the label of the first occurrence of the minimum
idxmin(series) ==
    series[CHOOSE g \in 1..Len(series) :
              /\ \A h \in 1..Len(series) : series[h].total >= series[g].total
              /\ \A h \in 1..(g - 1) : series[h].total > series[g].total].month

\* Series.reset_index() inserts the index levels state and month as
\* columns and raises ValueError when the series has the name of one
ResetIndexRaises(total_col) == total_col \in {"state", "month"}

\* one turn of the loop: the result set for the table, or the exception
TableResult(df) ==
    IF IsEmptyTable(df) \/ ~df.has_date \/ ~df.has_state
        THEN [raised |-> FALSE, result |-> EmptyResult]
    ELSE LET rows == DropNaDates(ParseDates(df.rows))
             numeric_cols == NumericCols(df)
             total_col == Head(numeric_cols)
         IN  IF Len(rows) = 0 \/ numeric_cols = <<>>
                 THEN [raised |-> FALSE, result |-> EmptyResult]
             ELSE IF ResetIndexRaises(total_col)
                 THEN [raised |-> TRUE, result |-> EmptyResult]
             ELSE [raised |-> FALSE,
                   result |->
                     [empty |-> FALSE,
                      monthly_state_pattern |->
                          FirstN(MonthlyState(rows, total_col), PatternLimit),
                      peak_month |-> idxmax(MonthTotals(rows, total_col)),
                      low_month |-> idxmin(MonthTotals(rows, total_col))]]

trivariate_time_state_volume(enrollment_df, demographic_df, biometric_df) ==
    LET e == TableResult(enrollment_df)
        d == TableResult(demographic_df)
        b == TableResult(biometric_df)
    IN  IF e.raised \/ d.raised \/ b.raised
            THEN [done |-> TRUE, raises |-> "ValueError"]
        ELSE [done |-> TRUE,
              results |-> [enrollment |-> e.result,
                           demographic |-> d.result,
                           biometric |-> b.result]]

(***************************************************************************)
(* univariate_analysis(df, column) and analyze_enrollment_distribution(df) *)
(*                                                                         *)
(* univariate_analysis takes a table of cells [columns, rows], as          *)
(* bivariate_correlation does.  Of the statistics it returns the model     *)
(* carries count, mean, min, max and median; std, the quartiles, skewness  *)
(* and kurtosis are further functions of the same series.                  *)
(***************************************************************************)
\* pd.to_numeric(df[column], errors='coerce').dropna()
NumericValues(rows, column) ==
    Masked(to_numeric(rows, column),
           [i \in 1..Len(rows) |-> rows[i][column].numeric])

RECURSIVE InsertAscending(_, _)
InsertAscending(sorted, x) ==
    IF sorted = <<>> THEN <<x>>
    ELSE IF x < Head(sorted) THEN <<x>> \o sorted
    ELSE <<Head(sorted)>> \o InsertAscending(Tail(sorted), x)

\* the values of a series in ascending order
RECURSIVE SortAscending(_)
SortAscending(s) ==
    IF s = <<>> THEN <<>>
    ELSE InsertAscending(SortAscending(Tail(s)), Head(s))

\* Series.median() of a series that is not empty
Median(s) ==
    LET sorted == SortAscending(s)
        n == Len(s)
    IN  IF n % 2 = 1 THEN RInt(sorted[(n + 1) \div 2])
        ELSE Frac(sorted[n \div 2] + sorted[(n \div 2) + 1], 2)

univariate_analysis(df, column) ==
    IF column \notin df.columns
        THEN [done |-> TRUE, error |-> "Column " \o column \o " not found"]
    ELSE LET series == NumericValues(df.rows, column)
         IN  IF Len(series) = 0
                 THEN [done |-> TRUE,
                       error |-> "No valid numeric data in " \o column]
             ELSE [done |-> TRUE,
                   column |-> column,
                   count |-> Len(series),
                   mean |-> Mean(series),
                   min |-> SortAscending(series)[1],
                   max |-> SortAscending(series)[Len(series)],
                   median |-> Median(series)]

age_cols ==
    {"age_0_5", "age_5_17", "age_18_greater",
     "0-5 Years", "5-17 Years", "18+ Years"}

\* the columns of a table [has_state, has_date, ncols, rows] as cells: the
\* numeric columns hold numbers, state and date hold text
AsCells(df) ==
    LET numeric == { NumericColumnNames[c] : c \in 1..df.ncols }
        columns == numeric \cup (IF df.has_state THEN {"state"} ELSE {})
                           \cup (IF df.has_date THEN {"date"} ELSE {})
    IN  [columns |-> columns,
         rows |-> [i \in 1..Len(df.rows) |->
                     [name \in columns |->
                        IF name \in numeric
                            THEN NumCell(df.rows[i].vals[
                                   CHOOSE c \in 1..df.ncols :
                                       NumericColumnNames[c] = name])
                            ELSE NaNCell]]]

analyze_enrollment_distribution(df) ==
    LET cells == AsCells(df)
        found == { col \in age_cols \cap cells.columns :
                     "error" \notin DOMAIN univariate_analysis(cells, col) }
    IN  [total_records |-> Len(df.rows),
         age_groups |-> [col \in found |-> univariate_analysis(cells, col)]]

(***************************************************************************)
(* preprocess_data(df), generate_analytics_report(data, output_dir) and    *)
(* export_for_powerbi(data, output_dir)                                    *)
(*                                                                         *)
(* data holds the three loaded tables; a source that was not loaded is the *)
(* table without columns, pd.DataFrame().                                  *)
(***************************************************************************)
DataFrame == [has_state |-> FALSE, has_date |-> FALSE, ncols |-> 0, rows |-> <<>>]

\* str.strip().str.title() of the state names that occur
StripTitle(state) ==
    CASE state = "kerala " -> "Kerala"
      [] state = " GOA" -> "Goa"
      [] OTHER -> state

preprocess_data(df) ==
    IF IsEmptyTable(df) THEN df
    ELSE [df EXCEPT !.rows =
            [i \in 1..Len(df.rows) |->
                [df.rows[i] EXCEPT
                    !.date = IF df.has_date THEN to_datetime(@) ELSE @,
                    !.state = IF df.has_state THEN StripTitle(@) ELSE @]]]

\* the loop over CONFIG['population'].keys(): the indicators of the states
\* whose call signals no error.  Rounding is a function of its argument:
\* one of the values round(x, 1) can take is used for every call.
StateIndicators(df, state) ==
    CHOOSE ind \in calculate_state_indicators(df, state) : TRUE

IndicatorsLoop(df) ==
    LET found == { state \in DOMAIN CONFIG_population :
                     "error" \notin DOMAIN StateIndicators(df, state) }
    IN  [state \in found |-> StateIndicators(df, state)]

\* the dict without entries
NoEntries == [state \in {} |-> TRUE]

generate_analytics_report(data) ==
    LET enrollment_df == preprocess_data(data.enrollment)
        demographic_df == preprocess_data(data.demographic)
        biometric_df == preprocess_data(data.biometric)
        trivariate == trivariate_time_state_volume(enrollment_df,
                                                   demographic_df, biometric_df)
    IN  IF "raises" \in DOMAIN trivariate THEN trivariate
        ELSE [done |-> TRUE,
              saved |-> TRUE,
              summary |->
                 [enrollment_records |-> Len(enrollment_df.rows),
                  demographic_records |-> Len(demographic_df.rows),
                  biometric_records |-> Len(biometric_df.rows),
                  total_records |-> Len(enrollment_df.rows)
                                      + Len(demographic_df.rows)
                                      + Len(biometric_df.rows)],
              univariate |->
                 IF ~IsEmptyTable(enrollment_df)
                     THEN [enrollment |->
                             analyze_enrollment_distribution(enrollment_df)]
                     ELSE NoEntries,
              bivariate |->
                 IF ~IsEmptyTable(enrollment_df)
                     THEN [state_correlation |->
                             state_activity_correlation(enrollment_df)]
                     ELSE NoEntries,
              trivariate |-> trivariate.results,
              indicators |->
                 IF ~IsEmptyTable(enrollment_df) /\ enrollment_df.has_state
                     THEN IndicatorsLoop(enrollment_df)
                     ELSE NoEntries,
              forecasts |->
                 IF ~IsEmptyTable(enrollment_df)
                     THEN [enrollment |->
                             forecast_enrollment_trend(enrollment_df)]
                     ELSE NoEntries]

\* enrollment_df.groupby('state')[numeric_cols].sum() with the columns
\* population_millions, total and saturation_index added: one record per
\* state, the saturation index being total / (population * 1,000,000) * 100
\* clipped at 120, not rounded
StateAggregates(df) ==
    LET g == GroupStates(df.rows)
    IN  [t \in 1..Len(g) |->
            LET state == StateOrder[g[t]]
                total == NumericTotal(SelectRows(df.rows, state))
                population == PopulationMillions(state)
                unit == population * (PersonsPerMillion \div 100)
            IN  [state |-> state,
                 population_millions |-> population,
                 total |-> total,
                 saturation_index |->
                    IF total >= SaturationCap * unit THEN RInt(SaturationCap)
                    ELSE Frac(total, unit)]]

\* enrollment_df.groupby('date')[numeric_cols].sum() with the column total
DailyAggregates(df) ==
    LET keys == DateKeys(df.rows)
    IN  [g \in 1..Len(keys) |->
            [date |-> keys[g],
             total |-> SumSeq([i \in 1..Len(df.rows) |->
                                 IF DateKey(df.rows[i].date) = keys[g]
                                     THEN SumSeq(df.rows[i].vals) ELSE 0])]]

\* the record appended for a state whose indicators signal no error
IndicatorRecord(ind) ==
    [state |-> ind.state,
     total_enrollments |-> ind.total_enrollments,
     saturation_index |-> ind.saturation_index.value,
     saturation_status |-> ind.saturation_index.status,
     volatility_index |-> ind.volatility_index.value,
     volatility_status |-> ind.volatility_index.status,
     population_millions |-> PopulationMillions(ind.state)]

\* the files written, by name, with the records they hold; the indicator
\* records are keyed by their state
export_for_powerbi(data) ==
    LET loaded == preprocess_data(data.enrollment)
        with_state_file == ~IsEmptyTable(loaded) /\ loaded.has_state
                              /\ loaded.ncols > 0
        with_dates == ~IsEmptyTable(loaded) /\ loaded.has_date
        \* enrollment_df = enrollment_df.dropna(subset=['date'])
        enrollment_df == IF with_dates
                            THEN [loaded EXCEPT
                                    !.rows = DropNaDates(ParseDates(loaded.rows))]
                            ELSE loaded
        with_daily_file == with_dates /\ enrollment_df.ncols > 0
        indicators == IF ~IsEmptyTable(enrollment_df) /\ enrollment_df.has_state
                         THEN IndicatorsLoop(enrollment_df)
                         ELSE NoEntries
    IN  [done |-> TRUE,
         exported_files |->
            (IF with_state_file THEN <<"powerbi_state_enrollment.csv">> ELSE <<>>)
            \o (IF with_daily_file THEN <<"powerbi_daily_enrollment.csv">> ELSE <<>>)
            \o (IF DOMAIN indicators # {} THEN <<"powerbi_indicators.csv">> ELSE <<>>),
         state_agg |-> IF with_state_file THEN StateAggregates(loaded) ELSE <<>>,
         daily_agg |-> IF with_daily_file THEN DailyAggregates(enrollment_df)
                                          ELSE <<>>,
         indicators |-> [state \in DOMAIN indicators |->
                            IndicatorRecord(indicators[state])]]

(***************************************************************************)
(* Calls of calculate_saturation_index.                                    *)
(***************************************************************************)
StateNames == {"Kerala", "Uttar Pradesh", "Goa"}

\* totals near 0, the two thresholds and the cap, on the grid
SatTotals(state) ==
    LET step == (PopulationMillions(state) * PersonsPerMillion) \div (1000 * Grain)
    IN  { step * (Grain * 10 * L + d) :
            L \in {0, saturation_critical, saturation_warning, SaturationCap},
            d \in -MaxDelta..MaxDelta }

InitSat ==
    /\ fn = "calculate_saturation_index"
    /\ \E state \in StateNames : \E total \in SatTotals(state) :
          args = [total_enrollments |-> total, state |-> state]
    /\ ret = Pending
    /\ hist = <<>>

CalculateSaturationIndex ==
    /\ fn = "calculate_saturation_index"
    /\ ~ret.done
    /\ ret' \in calculate_saturation_index(args.total_enrollments, args.state)
    \* the function is deterministic: the same arguments, the same result
    /\ (hist # <<>> /\ hist[1].args = args) => ret' = hist[1].ret
    /\ UNCHANGED <<fn, args, hist>>

\* the caller keeps the result and calls again for the same state
SaturationCallAgain ==
    /\ fn = "calculate_saturation_index"
    /\ ret.done
    /\ hist = <<>>
    /\ hist' = <<[args |-> args, ret |-> ret]>>
    /\ \E total \in SatTotals(args.state) :
          args' = [args EXCEPT !.total_enrollments = total]
    /\ ret' = Pending
    /\ UNCHANGED fn

NextSat == CalculateSaturationIndex \/ SaturationCallAgain

SpecSat == InitSat /\ [][NextSat]_vars

(***************************************************************************)
(* Calls of calculate_volatility_index.                                    *)
(***************************************************************************)
DailySeries == UNION { [1..n -> -MaxVal..MaxVal] : n \in 0..MaxLen }

InitVol ==
    /\ fn = "calculate_volatility_index"
    /\ \E s \in DailySeries : args = [daily_values |-> s]
    /\ ret = Pending
    /\ hist = <<>>

CalculateVolatilityIndex ==
    /\ fn = "calculate_volatility_index"
    /\ ~ret.done
    /\ ret' \in calculate_volatility_index(args.daily_values)
    /\ UNCHANGED <<fn, args, hist>>

NextVol == CalculateVolatilityIndex

SpecVol == InitVol /\ [][NextVol]_vars

(***************************************************************************)
(* Calls of calculate_state_indicators.                                    *)
(***************************************************************************)
\* sequences of at most n elements of S
SeqsUpTo(S, n) == UNION { [1..k -> S] : k \in 0..n }

Tuples(S, n) == [1..n -> S]

IndDates == {DateString(1, 5), DateString(1, 6), DateString(0, 0)}

IndRowSet(has_state, has_date, ncols) ==
    { [state |-> s, date |-> d, vals |-> v] :
        s \in (IF has_state THEN {"Kerala", "Goa"} ELSE {NoState}),
        d \in (IF has_date THEN IndDates ELSE {NoDate}),
        v \in Tuples({-CellUnit, CellUnit}, ncols) }

IndTables ==
    UNION { { [has_state |-> hs, has_date |-> hd, ncols |-> k, rows |-> r] :
              r \in SeqsUpTo(IndRowSet(hs, hd, k),
                             IF ~hs /\ ~hd /\ k = 0 THEN 0 ELSE MaxRows) } :
            hs \in BOOLEAN, hd \in BOOLEAN, k \in {0, 1, 2} }

InitInd ==
    /\ fn = "calculate_state_indicators"
    /\ \E df \in IndTables : \E state \in {"Kerala", "Punjab"} :
          args = [df |-> df, state |-> state]
    /\ ret = Pending
    /\ hist = <<>>

CalculateStateIndicators ==
    /\ fn = "calculate_state_indicators"
    /\ ~ret.done
    /\ ret' \in calculate_state_indicators(args.df, args.state)
    /\ args' = [args EXCEPT !.df = TableAfterStateIndicators(args.df, args.state)]
    /\ UNCHANGED <<fn, hist>>

NextInd == CalculateStateIndicators

SpecInd == InitInd /\ [][NextInd]_vars

\* calculate_saturation_index called directly and through
\* calculate_state_indicators
SpecSatInd == (InitSat \/ InitInd) /\ [][NextSat \/ NextInd]_vars

(***************************************************************************)
(* Calls of simple_linear_forecast and forecast_enrollment_trend.          *)
(***************************************************************************)
\* the daily totals a * i + b for i = 0 .. n-1, with 1 added at position
\* bump (bump = 0: nowhere), on the days 1 .. n of month 1
LineSeries(n, a, b, bump) ==
    [i \in 1..n |->
        [date |-> DateKey(DateString(1, i)),
         value |-> a * (i - 1) + b + (IF i = bump THEN 1 ELSE 0)]]

ForecastSeries ==
    { LineSeries(n, a, b, bump) :
        n \in 0..(MinObservations + ExtraObs),
        a \in -MaxSlope..MaxSlope,
        b \in 0..MaxIntercept,
        bump \in {0, 1, 2, MinObservations} }

\* a table of one numeric column holding the series, latest day first,
\* after bad rows whose date does not parse
SeriesTable(series, bad, has_date, ncols) ==
    [has_state |-> FALSE, has_date |-> has_date, ncols |-> ncols,
     rows |-> [i \in 1..(bad + Len(series)) |->
                 [state |-> NoState,
                  date |-> IF ~has_date THEN NoDate
                           ELSE IF i <= bad THEN DateString(0, 0)
                           ELSE DateString(1, Len(series) + bad + 1 - i),
                  vals |-> IF ncols = 0 THEN <<>>
                           ELSE IF i <= bad THEN <<1>>
                           ELSE <<series[Len(series) + bad + 1 - i].value>>]]]

ForecastTables ==
    { SeriesTable(s, bad, hd, k) :
        s \in ForecastSeries, bad \in 0..MaxBad, hd \in BOOLEAN, k \in {0, 1} }

InitFc ==
    /\ \/ /\ fn = "simple_linear_forecast"
          /\ \E s \in ForecastSeries :
                args = [time_series |-> s, periods |-> ForecastPeriods]
       \/ /\ fn = "forecast_enrollment_trend"
          /\ \E df \in ForecastTables : args = [df |-> df]
    /\ ret = Pending
    /\ hist = <<>>

SimpleLinearForecast ==
    /\ fn = "simple_linear_forecast"
    /\ ~ret.done
    /\ ret' = simple_linear_forecast(args.time_series, args.periods)
    /\ UNCHANGED <<fn, args, hist>>

ForecastEnrollmentTrend ==
    /\ fn = "forecast_enrollment_trend"
    /\ ~ret.done
    /\ ret' = forecast_enrollment_trend(args.df)
    /\ UNCHANGED <<fn, args, hist>>

NextFc == SimpleLinearForecast \/ ForecastEnrollmentTrend

SpecFc == InitFc /\ [][NextFc]_vars

(***************************************************************************)
(* Calls of bivariate_correlation and interpret_correlation.               *)
(***************************************************************************)
CorrCells == {NaNCell} \cup { NumCell(v) : v \in 0..MaxCell }

\* the coefficients k / 100 and NaN
Coefficients ==
    {CorrNaN} \cup { [nan |-> FALSE, num |-> k, den2 |-> 10000] : k \in -100..100 }

InitCorr ==
    /\ \/ /\ fn = "bivariate_correlation"
          /\ \E cols \in SUBSET {"a", "b"} : \E n \in 0..MaxCorrRows :
             \E r \in [1..n -> [cols -> CorrCells]] : \E col2 \in {"a", "b"} :
                args = [df |-> [columns |-> cols, rows |-> r],
                        col1 |-> "a", col2 |-> col2]
       \/ /\ fn = "interpret_correlation"
          /\ \E r \in Coefficients : args = [r |-> r]
    /\ ret = Pending
    /\ hist = <<>>

BivariateCorrelation ==
    /\ fn = "bivariate_correlation"
    /\ ~ret.done
    /\ ret' = bivariate_correlation(args.df, args.col1, args.col2)
    /\ UNCHANGED <<fn, args, hist>>

InterpretCorrelation ==
    /\ fn = "interpret_correlation"
    /\ ~ret.done
    /\ ret' = [done |-> TRUE, text |-> interpret_correlation(args.r)]
    /\ UNCHANGED <<fn, args, hist>>

NextCorr == BivariateCorrelation \/ InterpretCorrelation

SpecCorr == InitCorr /\ [][NextCorr]_vars

(***************************************************************************)
(* Calls of extract_top_correlations and state_activity_correlation.       *)
(***************************************************************************)
\* the coefficients -1, -1/2, 1/2, 1 and NaN
TopEntries ==
    {CorrNaN} \cup { [nan |-> FALSE, num |-> k, den2 |-> 4] : k \in {-2, -1, 1, 2} }

UnitCoefficient == [nan |-> FALSE, num |-> 1, den2 |-> 1]

UpperPositions(k) == { p \in (1..k) \X (1..k) : p[1] < p[2] }

\* the symmetric matrix of k columns with the coefficients u above its
\* diagonal and 1 on it
SymmetricMatrix(k, u) ==
    [cols |-> SubSeq(NumericColumnNames, 1, k),
     r |-> [i \in 1..k |-> [j \in 1..k |->
               IF i = j THEN UnitCoefficient
               ELSE IF i < j THEN u[<<i, j>>] ELSE u[<<j, i>>]]]]

\* the least number of columns with more than TopN pairs
EnoughCols ==
    CHOOSE k \in 1..(TopN + 1) :
        /\ k * (k - 1) > 2 * TopN
        /\ (k - 1) * (k - 2) <= 2 * TopN

ActRowSet(has_state, ncols) ==
    { [state |-> s, date |-> NoDate, vals |-> v] :
        s \in (IF has_state THEN {"Kerala", "Goa"} ELSE {NoState}),
        v \in Tuples({0, 1}, ncols) }

InitTop ==
    /\ \/ /\ fn = "extract_top_correlations"
          /\ \E k \in 0..MaxCols : \E u \in [UpperPositions(k) -> TopEntries] :
             \E n \in 0..MaxTop :
                args = [corr_matrix |-> SymmetricMatrix(k, u), n |-> n]
       \/ /\ fn = "state_activity_correlation"
          /\ \E hs \in BOOLEAN : \E k \in {1, 2, EnoughCols} :
             \E n \in 0..MaxRows : \E r \in [1..n -> ActRowSet(hs, k)] :
                args = [df |-> [has_state |-> hs, has_date |-> FALSE,
                                ncols |-> k, rows |-> r]]
    /\ ret = Pending
    /\ hist = <<>>

ExtractTopCorrelations ==
    /\ fn = "extract_top_correlations"
    /\ ~ret.done
    /\ ret' = [done |-> TRUE,
               pairs |-> extract_top_correlations(args.corr_matrix, args.n)]
    /\ UNCHANGED <<fn, args, hist>>

StateActivityCorrelation ==
    /\ fn = "state_activity_correlation"
    /\ ~ret.done
    /\ ret' = state_activity_correlation(args.df)
    /\ UNCHANGED <<fn, args, hist>>

NextTop == ExtractTopCorrelations \/ StateActivityCorrelation

SpecTop == InitTop /\ [][NextTop]_vars

(***************************************************************************)
(* Calls of trivariate_time_state_volume: one of the three tables is drawn *)
(* from the larger family, the other two from OtherTables.                 *)
(***************************************************************************)
TriDates == {DateString(1, 5), DateString(2, 5), DateString(0, 0)}

TriRowSet(has_state, has_date, ncols) ==
    { [state |-> s, date |-> d, vals |-> v] :
        s \in (IF has_state THEN {"Kerala", "Goa"} ELSE {NoState}),
        d \in (IF has_date THEN TriDates ELSE {NoDate}),
        v \in Tuples({1, 2}, ncols) }

Table(has_state, has_date, ncols, rows) ==
    [has_state |-> has_state, has_date |-> has_date, ncols |-> ncols,
     rows |-> rows]

\* state and date columns, one numeric column, no row
NoRows == Table(TRUE, TRUE, 1, <<>>)

\* one row with a measure of its own
OneMeasure ==
    Table(TRUE, TRUE, 1,
          <<[state |-> "Kerala", date |-> DateString(1, 5), vals |-> <<1>>]>>)

\* state and date columns only
NoMeasure ==
    Table(TRUE, TRUE, 0,
          <<[state |-> "Kerala", date |-> DateString(1, 5), vals |-> <<>>]>>)

\* two numeric columns that differ
TwoMeasures ==
    Table(TRUE, TRUE, 2,
          <<[state |-> "Goa", date |-> DateString(2, 5), vals |-> <<1, 2>>],
            [state |-> "Goa", date |-> DateString(1, 5), vals |-> <<2, 1>>],
            [state |-> "Bihar", date |-> DateString(2, 7), vals |-> <<2, 1>>]>>)

\* every state of StateOrder in each of the months 1..11: 55 groups
WideTable ==
    Table(TRUE, TRUE, 1,
          [i \in 1..(11 * Len(StateOrder)) |->
              [state |-> StateOrder[((i - 1) % Len(StateOrder)) + 1],
               date |-> DateString(11 - ((i - 1) \div Len(StateOrder)), 5),
               vals |-> <<IF (i - 1) \div Len(StateOrder) = 4 THEN 2 ELSE 1>>]])

OtherTables == {NoRows, OneMeasure, NoMeasure}

TriArgs(p, focus, o1, o2) ==
    IF p = 1 THEN [enrollment_df |-> focus, demographic_df |-> o1,
                   biometric_df |-> o2]
    ELSE IF p = 2 THEN [enrollment_df |-> o1, demographic_df |-> focus,
                        biometric_df |-> o2]
    ELSE [enrollment_df |-> o1, demographic_df |-> o2, biometric_df |-> focus]

InitTri ==
    /\ fn = "trivariate_time_state_volume"
    /\ \E p \in 1..3 : \E o1 \in OtherTables : \E o2 \in OtherTables :
          \/ \E focus \in {TwoMeasures, WideTable} :
                args = TriArgs(p, focus, o1, o2)
          \/ \E hs \in BOOLEAN : \E hd \in BOOLEAN : \E k \in {0, 1} :
             \E n \in 0..MaxTriRows : \E r \in [1..n -> TriRowSet(hs, hd, k)] :
                args = TriArgs(p, Table(hs, hd, k, r), o1, o2)
    /\ ret = Pending
    /\ hist = <<>>

TrivariateTimeStateVolume ==
    /\ fn = "trivariate_time_state_volume"
    /\ ~ret.done
    /\ ret' = trivariate_time_state_volume(args.enrollment_df,
                                           args.demographic_df,
                                           args.biometric_df)
    /\ UNCHANGED <<fn, args, hist>>

NextTri == TrivariateTimeStateVolume

SpecTri == InitTri /\ [][NextTri]_vars

(***************************************************************************)
(* Calls of generate_analytics_report and export_for_powerbi, as main      *)
(* makes them in mode 'all': the report first, then the export of the same *)
(* data, unless the report raised.                                         *)
(***************************************************************************)
RawStates == {"Kerala", "kerala ", " GOA"}

ReportDates == {DateString(1, 5), DateString(1, 6), DateString(0, 0)}

ReportRowSet(has_state, has_date, ncols) ==
    { [state |-> s, date |-> d, vals |-> v] :
        s \in (IF has_state THEN RawStates ELSE {NoState}),
        d \in (IF has_date THEN ReportDates ELSE {NoDate}),
        v \in Tuples({CellUnit, 3 * CellUnit}, ncols) }

\* the shapes of the demographic and the biometric table
OtherSources == {DataFrame, NoRows, OneMeasure, NoMeasure}

InitMain ==
    /\ fn = "generate_analytics_report"
    /\ \E d \in OtherSources : \E b \in {DataFrame, NoMeasure} :
          \/ args = [data |-> [enrollment |-> DataFrame, demographic |-> d,
                               biometric |-> b]]
          \/ \E hs \in BOOLEAN : \E hd \in BOOLEAN : \E k \in {0, 1} :
             \E n \in 0..MaxReportRows :
             \E r \in [1..n -> ReportRowSet(hs, hd, k)] :
                /\ hs \/ hd \/ k > 0
                /\ args = [data |-> [enrollment |-> Table(hs, hd, k, r),
                                     demographic |-> d, biometric |-> b]]
    /\ ret = Pending
    /\ hist = <<>>

GenerateAnalyticsReport ==
    /\ fn = "generate_analytics_report"
    /\ ~ret.done
    /\ ret' = generate_analytics_report(args.data)
    /\ UNCHANGED <<fn, args, hist>>

\* main: export_for_powerbi(data, powerbi_dir) follows the report
MainCallsExport ==
    /\ fn = "generate_analytics_report"
    /\ ret.done
    /\ "raises" \notin DOMAIN ret
    /\ hist' = Append(hist, [fn |-> fn, args |-> args, ret |-> ret])
    /\ fn' = "export_for_powerbi"
    /\ ret' = Pending
    /\ UNCHANGED args

ExportForPowerbi ==
    /\ fn = "export_for_powerbi"
    /\ ~ret.done
    /\ ret' = export_for_powerbi(args.data)
    /\ UNCHANGED <<fn, args, hist>>

NextMain == GenerateAnalyticsReport \/ MainCallsExport \/ ExportForPowerbi

SpecMain == InitMain /\ [][NextMain]_vars

(***************************************************************************)
(* Calls of univariate_analysis, and the calls of all the transforms that  *)
(* are given a table.                                                      *)
(***************************************************************************)
InitUni ==
    /\ fn = "univariate_analysis"
    /\ \E cols \in SUBSET {"a", "b"} : \E n \in 0..MaxCorrRows :
       \E r \in [1..n -> [cols -> CorrCells]] :
          args = [df |-> [columns |-> cols, rows |-> r], column |-> "a"]
    /\ ret = Pending
    /\ hist = <<>>

UnivariateAnalysis ==
    /\ fn = "univariate_analysis"
    /\ ~ret.done
    /\ ret' = univariate_analysis(args.df, args.column)
    /\ UNCHANGED <<fn, args, hist>>

Transforms ==
    {"univariate_analysis", "bivariate_correlation",
     "state_activity_correlation", "trivariate_time_state_volume",
     "calculate_state_indicators", "forecast_enrollment_trend"}

InitTransforms ==
    /\ InitUni \/ InitCorr \/ InitTop \/ InitTri \/ InitInd \/ InitFc
    /\ fn \in Transforms

NextTransforms ==
    \/ UnivariateAnalysis
    \/ BivariateCorrelation
    \/ StateActivityCorrelation
    \/ TrivariateTimeStateVolume
    \/ CalculateStateIndicators
    \/ ForecastEnrollmentTrend

SpecTransforms == InitTransforms /\ [][NextTransforms]_vars

(***************************************************************************)
(* Properties: calculate_saturation_index.                                 *)
(***************************************************************************)
SatReturned == fn = "calculate_saturation_index" /\ ret.done

\* the population, in millions, of the states the calls name
ClaimedPopulation(state) ==
    CASE state = "Kerala" -> 36
      [] state = "Uttar Pradesh" -> 240
      [] OTHER -> 50

\* persons per percent of the population: index = total / OnePercent
OnePercent(state) == ClaimedPopulation(state) * 10000

\* C1 as stated: the value and the status the result carries are such that
\* value < 40 gives critical, 40 <= value < 60 gives warning and
\* value >= 60 gives healthy.  (value in tenths.)
C1_StatusBandsOfReturnedValue ==
    SatReturned =>
            /\ (ret.value < 400 => ret.status = "critical")
            /\ (ret.value >= 400 /\ ret.value < 600 => ret.status = "warning")
            /\ (ret.value >= 600 => ret.status = "healthy")

\* C1 amended: the status is the band of the unrounded index
\* min(total / population * 100, 120): index < 40 critical, 40 <= index < 60
\* warning, index >= 60 healthy; the returned value is that index rounded
\* to one decimal place; the population is the table entry or 50.
C1_StatusBandsOfIndex ==
    SatReturned =>
        LET total == args.total_enrollments
            pct == OnePercent(args.state)
            tenth == pct \div 10
            capped == Min(total, 120 * pct)
        IN  /\ (total < 40 * pct => ret.status = "critical")
            /\ (total >= 40 * pct /\ total < 60 * pct => ret.status = "warning")
            /\ (total >= 60 * pct => ret.status = "healthy")
            /\ 2 * Abs(ret.value * tenth - capped) <= tenth
            /\ ret.population_millions = ClaimedPopulation(args.state)

\* an index just below 40 that is returned as 40.0 with status critical
C1_RoundedAcrossBand ==
    /\ SatReturned
    /\ ret.value = 400
    /\ ret.status = "critical"
    /\ args.total_enrollments < 40 * OnePercent(args.state)

\* the saturation value does not decrease when the total grows (same state)
SaturationMonotone ==
    (SatReturned /\ hist # <<>>) =>
        (hist[1].args.total_enrollments <= args.total_enrollments
            => hist[1].ret.value <= ret.value)

\* C2 as stated: the value is monotonically non-decreasing in the total,
\* and for every total calculate_state_indicators passes, 0 <= value <= 120.
C2_MonotoneAndBounded ==
    /\ SaturationMonotone
    /\ (fn = "calculate_state_indicators" /\ ret.done /\ "error" \notin DOMAIN ret)
          => (ret.saturation_index.value >= 0 /\ ret.saturation_index.value <= 1200)

(***************************************************************************)
(* Properties: calculate_volatility_index.                                 *)
(***************************************************************************)
VolReturned == fn = "calculate_volatility_index" /\ ret.done

\* the sum S of the series and D = n * (sum of squares) - S * S, so that
\* mean = S / n, population std = sqrt(D) / n and cv = 100 * sqrt(D) / S
SeriesSum(s) == SumSeq(s)

SeriesD(s) == Len(s) * SumSeq([i \in 1..Len(s) |-> s[i] * s[i]]) - SumSeq(s) * SumSeq(s)

\* cv < t, for t > 0 and S # 0
CvLess(s, t) == SeriesSum(s) < 0 \/ 10000 * SeriesD(s) < t * t * SeriesSum(s) * SeriesSum(s)

\* the guards, in order, and the bands of cv
VolatilityGuardsAndBands ==
    LET s == args.daily_values
    IN  IF Len(s) < 2 THEN ret.value = 0 /\ ret.status = "insufficient_data"
        ELSE IF SeriesSum(s) = 0 THEN ret.value = 0 /\ ret.status = "no_activity"
        ELSE /\ (CvLess(s, 50) => ret.status = "stable")
             /\ (~CvLess(s, 50) /\ CvLess(s, 100) => ret.status = "moderate")
             /\ (~CvLess(s, 100) /\ CvLess(s, 150) => ret.status = "high")
             /\ (~CvLess(s, 150) => ret.status = "critical")

\* C3 as stated: the guards and bands, and past the guards the returned
\* value is cv = population_std / mean * 100 itself.  (value in tenths:
\* value * S = 1000 * sqrt(D).)
C3_ReturnsCvItself ==
    VolReturned =>
        LET s == args.daily_values
        IN  /\ VolatilityGuardsAndBands
            /\ (Len(s) >= 2 /\ SeriesSum(s) # 0) =>
                  /\ ret.value * SeriesSum(s) >= 0
                  /\ ret.value * ret.value * SeriesSum(s) * SeriesSum(s)
                        = 1000000 * SeriesD(s)

\* C3 amended: the guards and bands as stated; past the guards the
\* returned value is cv rounded to one decimal place.
C3_ReturnsCvRounded ==
    VolReturned =>
        LET s == args.daily_values
            S == Abs(SeriesSum(s))
            a == Abs(ret.value)
        IN  /\ VolatilityGuardsAndBands
            /\ (Len(s) >= 2 /\ SeriesSum(s) # 0) =>
                  /\ ret.value * SeriesSum(s) >= 0
                  /\ 4000000 * SeriesD(s) <= (2 * a + 1) * (2 * a + 1) * S * S
                  /\ a > 0 => (2 * a - 1) * (2 * a - 1) * S * S <= 4000000 * SeriesD(s)

\* a series past both guards whose cv is not a whole number of tenths
C3_RoundedCv ==
    /\ VolReturned
    /\ Len(args.daily_values) >= 2
    /\ SeriesSum(args.daily_values) > 0
    /\ ret.status = "high"
    /\ ret.value * ret.value * SeriesSum(args.daily_values) * SeriesSum(args.daily_values)
          # 1000000 * SeriesD(args.daily_values)

IsConstantSeries(s) == \A i \in 1..Len(s) : s[i] = s[1]

\* C4 as stated: the returned value is never negative, and a constant
\* series [c, ..., c] of length >= 2 with c # 0 gives value 0, status stable.
C4_NonNegativeAndZeroOnConstant ==
    VolReturned =>
        LET s == args.daily_values
        IN  /\ ret.value >= 0
            /\ (Len(s) >= 2 /\ IsConstantSeries(s) /\ s[1] # 0)
                  => (ret.value = 0 /\ ret.status = "stable")

(***************************************************************************)
(* Properties: simple_linear_forecast and forecast_enrollment_trend.       *)
(***************************************************************************)
FitKeys == {"slope", "intercept", "r_squared", "forecast", "trend"}

\* the result signals an error and holds nothing of a fit
SignalsInsufficientData(r) ==
    /\ "error" \in DOMAIN r
    /\ r.error = "Insufficient data for forecasting"
    /\ DOMAIN r \cap FitKeys = {}

\* the result holds 30 projected values, for the index positions n .. n+29
HoldsProjection(r, n) ==
    /\ "error" \notin DOMAIN r
    /\ FitKeys \subseteq DOMAIN r
    /\ Len(r.forecast) = 30
    /\ \A k \in 0..29 :
          r.forecast[k + 1] = RAdd(RMul(r.slope, RInt(n + k)), r.intercept)

\* the distinct days of the rows whose date parses, as <<month, day>>
ObservedDays(df) ==
    { <<df.rows[i].date.month, df.rows[i].date.day>> :
        i \in {j \in 1..Len(df.rows) : df.rows[j].date.month # 0} }

LaterOrSame(d, e) == d[1] > e[1] \/ (d[1] = e[1] /\ d[2] >= e[2])

\* forecast_enrollment_trend hands the table's daily totals to the forecaster
ReachesForecaster(df) == df.rows # <<>> /\ df.has_date /\ df.ncols > 0

\* C5: with fewer than 10 daily observations (also none) the result signals
\* insufficient data and holds no slope, intercept, R-squared, projected
\* values or trend label; through forecast_enrollment_trend it still holds
\* the observation count and the last observed date (None without
\* observations).  With 10 or more observations it holds exactly 30
\* projected values, for the index positions n .. n+29.
C5_InsufficientDataOrProjection ==
    /\ (fn = "simple_linear_forecast" /\ ret.done) =>
          LET n == Len(args.time_series)
          IN  IF n < 10 THEN /\ SignalsInsufficientData(ret)
                             /\ DOMAIN ret = {"done", "error"}
                        ELSE HoldsProjection(ret, n)
    /\ (fn = "forecast_enrollment_trend" /\ ret.done /\ ReachesForecaster(args.df)) =>
          LET days == ObservedDays(args.df)
              n == Cardinality(days)
          IN  /\ IF n < 10 THEN SignalsInsufficientData(ret)
                            ELSE HoldsProjection(ret, n)
              /\ "historical_days" \in DOMAIN ret /\ ret.historical_days = n
              /\ "last_date" \in DOMAIN ret
              /\ IF n = 0 THEN ret.last_date = <<>>
                           ELSE /\ ret.last_date \in days
                                /\ \A d \in days : LaterOrSame(ret.last_date, d)

\* a table whose dates all fail to parse: no observation reaches the forecaster
C5_NoObservationAtAll ==
    /\ fn = "forecast_enrollment_trend"
    /\ ret.done
    /\ ReachesForecaster(args.df)
    /\ ObservedDays(args.df) = {}
    /\ "error" \in DOMAIN ret
    /\ ret.historical_days = 0

\* the series lies on the line y = a * i + b, i = 0 .. n-1
OnLine(time_series, a, b) ==
    \A i \in 1..Len(time_series) : time_series[i].value = a * (i - 1) + b

\* C6: for n >= 10 observations exactly on y_i = a*i + b the fit returns
\* slope a and intercept b, projects a*(n+k) + b for k = 0..29, labels the
\* trend increasing / decreasing / flat as a > 0 / a < 0 / a = 0, and gives
\* R-squared 1 when a # 0 and 0 when a = 0.
C6_ExactLineFit ==
    (fn = "simple_linear_forecast" /\ ret.done /\ Len(args.time_series) >= 10) =>
        LET n == Len(args.time_series)
            b == args.time_series[1].value
            a == args.time_series[2].value - b
        IN  OnLine(args.time_series, a, b) =>
              /\ "error" \notin DOMAIN ret
              /\ ret.slope = <<a, 1>>
              /\ ret.intercept = <<b, 1>>
              /\ Len(ret.forecast) = 30
              /\ \A k \in 0..29 : ret.forecast[k + 1] = <<a * (n + k) + b, 1>>
              /\ ret.trend = (IF a > 0 THEN "increasing"
                              ELSE IF a < 0 THEN "decreasing" ELSE "flat")
              /\ ret.r_squared = (IF a # 0 THEN <<1, 1>> ELSE <<0, 1>>)

\* a constant series of at least 10 values, fitted: SS_tot = 0
C6_ConstantSeriesFitted ==
    /\ fn = "simple_linear_forecast"
    /\ ret.done
    /\ Len(args.time_series) >= 10
    /\ OnLine(args.time_series, 0, args.time_series[1].value)
    /\ ret.trend = "flat"
    /\ ret.r_squared = <<0, 1>>

(***************************************************************************)
(* Properties: bivariate_correlation and interpret_correlation.            *)
(***************************************************************************)
RECURSIVE SumOver(_, _)
\* the sum of f[i] over the set I
SumOver(f, I) ==
    IF I = {} THEN 0
    ELSE LET i == CHOOSE j \in I : TRUE
         IN  f[i] + SumOver(f, I \ {i})

\* the rows where both values are numeric and present
JointlyValidRows(df, c1, c2) ==
    { i \in 1..Len(df.rows) : df.rows[i][c1].numeric /\ df.rows[i][c2].numeric }

\* n*Sum(u*w) - Sum(u)*Sum(w) over the rows I: n*n times the covariance
CoMoment(df, c1, c2, I) ==
    Cardinality(I) * SumOver([i \in I |-> df.rows[i][c1].v * df.rows[i][c2].v], I)
      - SumOver([i \in I |-> df.rows[i][c1].v], I)
          * SumOver([i \in I |-> df.rows[i][c2].v], I)

\* two coefficients num / sqrt(den2) are the same number
SameCoefficient(r, q) ==
    /\ (r.num > 0) = (q.num > 0)
    /\ (r.num < 0) = (q.num < 0)
    /\ r.num * r.num * q.den2 = q.num * q.num * r.den2

\* C7: both series are restricted to exactly the rows where both values
\* are numeric and present; sample_size is the number of those rows; fewer
\* than 2 of them signals 'Insufficient data' with no correlation value; an
\* absent column signals columns not found; an undefined coefficient is
\* reported as 0 with the note 'No correlation calculated'.
C7_JointlyValidRowsOnly ==
    (fn = "bivariate_correlation" /\ ret.done) =>
        LET df == args.df
            c1 == args.col1
            c2 == args.col2
        IN  IF c1 \notin df.columns \/ c2 \notin df.columns
                THEN DOMAIN ret = {"done", "error"} /\ ret.error = "Columns not found"
            ELSE LET I == JointlyValidRows(df, c1, c2)
                     cov == CoMoment(df, c1, c2, I)
                     v1 == CoMoment(df, c1, c1, I)
                     v2 == CoMoment(df, c2, c2, I)
                 IN  IF Cardinality(I) < 2
                         THEN /\ DOMAIN ret = {"done", "error"}
                              /\ ret.error = "Insufficient data"
                     ELSE /\ "error" \notin DOMAIN ret
                          /\ ret.sample_size = Cardinality(I)
                          /\ ~ret.correlation.nan
                          /\ IF v1 = 0 \/ v2 = 0
                                THEN /\ ret.correlation.num = 0
                                     /\ ret.interpretation = "No correlation calculated"
                                ELSE /\ SameCoefficient(ret.correlation,
                                         [nan |-> FALSE, num |-> cov, den2 |-> v1 * v2])
                                     /\ ret.interpretation # "No correlation calculated"

\* a table with a row missing one of the two values, left out of a
\* correlation over the other rows
C7_RowLeftOut ==
    /\ fn = "bivariate_correlation"
    /\ ret.done
    /\ args.col2 = "b"
    /\ args.df.columns = {"a", "b"}
    /\ "error" \notin DOMAIN ret
    /\ ret.sample_size < Len(args.df.rows)
    /\ ret.correlation.num # 0
    /\ \E i \in 1..Len(args.df.rows) :
          args.df.rows[i]["a"].numeric /\ ~args.df.rows[i]["b"].numeric

ClaimedStrength(r) ==
    IF 10000 * r.num * r.num < 100 * r.den2 THEN "Negligible"
    ELSE IF 10000 * r.num * r.num < 900 * r.den2 THEN "Weak"
    ELSE IF 10000 * r.num * r.num < 2500 * r.den2 THEN "Moderate"
    ELSE IF 10000 * r.num * r.num < 4900 * r.den2 THEN "Strong"
    ELSE "Very Strong"

DirectedTexts ==
    { s \o " " \o d \o " correlation" :
        s \in {"Negligible", "Weak", "Moderate", "Strong", "Very Strong"},
        d \in {"positive", "negative"} }

\* C8 as stated: for a defined r the text is '<Strength> <direction>
\* correlation' with the strength banded by |r| (0.10, 0.30, 0.50, 0.70) and
\* the direction the sign of r; r exactly 0 has no sign and is labelled with
\* neither direction.
C8_DirectionIsSignOfR ==
    (fn = "interpret_correlation" /\ ret.done /\ ~args.r.nan) =>
        LET r == args.r
        IN  /\ r.num > 0 => ret.text = ClaimedStrength(r) \o " positive correlation"
            /\ r.num < 0 => ret.text = ClaimedStrength(r) \o " negative correlation"
            /\ r.num = 0 => ret.text \notin DirectedTexts

\* the positions above the diagonal whose coefficient is defined
DefinedUpper(cm) ==
    { p \in UpperPositions(Len(cm.cols)) : ~cm.r[p[1]][p[2]].nan }

\* |r| at the position p is larger than at q, or the same and p comes
\* earlier in the enumeration of the upper triangle
RankedBefore(cm, p, q) ==
    LET x == cm.r[p[1]][p[2]]
        y == cm.r[q[1]][q[2]]
    IN  \/ x.num * x.num * y.den2 > y.num * y.num * x.den2
        \/ /\ x.num * x.num * y.den2 = y.num * y.num * x.den2
           /\ (p[1] < q[1] \/ (p[1] = q[1] /\ p[2] < q[2]))

\* the position that exactly t - 1 defined positions are ranked before
PositionOfRank(cm, t) ==
    CHOOSE p \in DefinedUpper(cm) :
        Cardinality({ q \in DefinedUpper(cm) : RankedBefore(cm, q, p) }) = t - 1

\* list is the n first defined pairs above the diagonal of cm, by rank
IsTopList(cm, n, list) ==
    /\ Len(list) = Min(n, Cardinality(DefinedUpper(cm)))
    /\ \A t \in 1..Len(list) :
          LET p == PositionOfRank(cm, t)
          IN  /\ list[t].pair = cm.cols[p[1]] \o " vs " \o cm.cols[p[2]]
              /\ list[t].correlation = cm.r[p[1]][p[2]]

\* C9: the list returned holds only pairs (col_i, col_j) with i < j and a
\* defined correlation, each once, sorted by absolute correlation in
\* non-increasing order with equal ones in upper-triangle enumeration order,
\* and is the min(N, number of defined pairs) pairs of largest absolute
\* correlation; state_activity_correlation calls it with N = 5, and signals
\* 'No state column found' when the table has no state column.
C9_TopPairsRanked ==
    /\ (fn = "extract_top_correlations" /\ ret.done) =>
          IsTopList(args.corr_matrix, args.n, ret.pairs)
    /\ (fn = "state_activity_correlation" /\ ret.done) =>
          IF ~args.df.has_state
              THEN ret = [done |-> TRUE, error |-> "No state column found"]
          ELSE /\ "error" \notin DOMAIN ret
               /\ IsTopList(ret.correlation_matrix, 5, ret.top_correlations)

\* a matrix with an undefined pair and two pairs of equal absolute
\* correlation and opposite sign, cut to fewer pairs than are defined
C9_TieCutShort ==
    /\ fn = "extract_top_correlations"
    /\ ret.done
    /\ args.n > 0
    /\ Len(ret.pairs) < Cardinality(DefinedUpper(args.corr_matrix))
    /\ Cardinality(DefinedUpper(args.corr_matrix))
          < Cardinality(UpperPositions(Len(args.corr_matrix.cols)))
    /\ \E p, q \in DefinedUpper(args.corr_matrix) :
          /\ p # q
          /\ args.corr_matrix.r[p[1]][p[2]].num
                = -args.corr_matrix.r[q[1]][q[2]].num
          /\ ret.pairs[Len(ret.pairs)].pair
                = args.corr_matrix.cols[p[1]] \o " vs " \o args.corr_matrix.cols[p[2]]

\* the rows of df whose date parses
ParsableRows(df) ==
    { i \in 1..Len(df.rows) : df.rows[i].date.month # 0 }

\* the table contributes an empty result
ClaimedSkipped(df) ==
    \/ df.rows = <<>>
    \/ ~df.has_date
    \/ ~df.has_state
    \/ ParsableRows(df) = {}

\* the first numeric column of a row: the table's own first numeric column,
\* or the derived month when it has none of its own
FirstNumeric(df, i) ==
    IF df.ncols > 0 THEN df.rows[i].vals[1] ELSE df.rows[i].date.month

ClaimedSum(df, I) == SumOver([i \in I |-> FirstNumeric(df, i)], I)

MonthRows(df, m) == { i \in ParsableRows(df) : df.rows[i].date.month = m }

StateMonthRows(df, s, m) == { i \in MonthRows(df, m) : df.rows[i].state = s }

Months(df) == { df.rows[i].date.month : i \in ParsableRows(df) }

StateMonths(df) ==
    { <<df.rows[i].state, df.rows[i].date.month>> : i \in ParsableRows(df) }

\* res is what the table df contributes according to the claim
ClaimedResult(df, res) ==
    IF ClaimedSkipped(df) THEN res = EmptyResult
    ELSE /\ ~res.empty
         /\ Len(res.monthly_state_pattern)
               = Min(50, Cardinality(StateMonths(df)))
         /\ \A t \in 1..Len(res.monthly_state_pattern) :
               LET g == res.monthly_state_pattern[t]
               IN  /\ <<g.state, g.month>> \in StateMonths(df)
                   /\ g.total = ClaimedSum(df, StateMonthRows(df, g.state, g.month))
                   /\ \A u \in 1..(t - 1) :
                         <<g.state, g.month>> #
                            <<res.monthly_state_pattern[u].state,
                              res.monthly_state_pattern[u].month>>
         /\ res.peak_month \in Months(df)
         /\ \A m \in Months(df) :
               \/ ClaimedSum(df, MonthRows(df, m))
                     < ClaimedSum(df, MonthRows(df, res.peak_month))
               \/ /\ ClaimedSum(df, MonthRows(df, m))
                        = ClaimedSum(df, MonthRows(df, res.peak_month))
                  /\ res.peak_month <= m
         /\ res.low_month \in Months(df)
         /\ \A m \in Months(df) :
               \/ ClaimedSum(df, MonthRows(df, m))
                     > ClaimedSum(df, MonthRows(df, res.low_month))
               \/ /\ ClaimedSum(df, MonthRows(df, m))
                        = ClaimedSum(df, MonthRows(df, res.low_month))
                  /\ res.low_month <= m

\* C10 as stated: each of the three tables contributes, whatever the other
\* two hold, an empty result when it is empty or lacks a date column, a
\* state column or a parsable date, and otherwise at most 50 (state, month,
\* sum) triples of its first numeric column, with peak_month and low_month
\* the months of largest and smallest total, the smallest month on a tie.
C10_EachTableOnItsOwn ==
    (fn = "trivariate_time_state_volume" /\ ret.done) =>
        /\ "results" \in DOMAIN ret
        /\ ClaimedResult(args.enrollment_df, ret.results.enrollment)
        /\ ClaimedResult(args.demographic_df, ret.results.demographic)
        /\ ClaimedResult(args.biometric_df, ret.results.biometric)

(***************************************************************************)
(* Properties: generate_analytics_report and export_for_powerbi.           *)
(***************************************************************************)
AnalysisFamilies ==
    {"summary", "univariate", "bivariate", "trivariate", "indicators",
     "forecasts"}

\* C11 as stated: whatever the shapes of the three tables, the report runs
\* every analysis family to completion and reaches the step that saves it;
\* no failure raises out of the core, in particular not a table with date
\* and state columns and no numeric column of its own in the trivariate
\* step.
C11_ReportAlwaysSaved ==
    (fn = "generate_analytics_report" /\ ret.done) =>
        /\ "raises" \notin DOMAIN ret
        /\ AnalysisFamilies \subseteq DOMAIN ret
        /\ ret.saved

\* the call of generate_analytics_report that main made before the export
ReportBeforeExport == hist[Len(hist)]

\* the states of the population table with at least one row in the loaded
\* enrollment data
StatesWithRows(df) ==
    IF ~df.has_state THEN {}
    ELSE { StripTitle(df.rows[i].state) : i \in 1..Len(df.rows) }
            \cap DOMAIN CONFIG_population

\* C13 as stated: for the same loaded enrollment data the indicator records
\* written by export_for_powerbi and the indicators of the report hold
\* exactly the states of the population table with at least one row in the
\* data, and for each of them the same total activity, saturation value and
\* status and volatility value and status, also when some rows have dates
\* that do not parse.
C13_ExportAgreesWithReport ==
    (fn = "export_for_powerbi" /\ ret.done /\ hist # <<>>) =>
        LET report == ReportBeforeExport.ret.indicators
            export == ret.indicators
            states == StatesWithRows(args.data.enrollment)
        IN  /\ ReportBeforeExport.args = args
            /\ DOMAIN report = states
            /\ DOMAIN export = states
            /\ \A state \in states :
                  /\ export[state].total_enrollments
                        = report[state].total_enrollments
                  /\ export[state].saturation_index
                        = report[state].saturation_index.value
                  /\ export[state].saturation_status
                        = report[state].saturation_index.status
                  /\ export[state].volatility_index
                        = report[state].volatility_index.value
                  /\ export[state].volatility_status
                        = report[state].volatility_index.status


(***************************************************************************)
(* Properties: the tables given to the transforms.                         *)
(***************************************************************************)
\* C12 as stated: every transform leaves the table it is given unchanged,
\* with the same columns and the same values after the call as before, for
\* every table shape including a table with a date column and no state
\* column.
C12_TablesLeftUnchanged == [][args' = args]_vars

=============================================================================
